---------------------------- MODULE Spec2Model ----------------------------
(***************************************************************************)
(* RangeList over an AVL tree (manan/range-list).                          *)
(*                                                                         *)
(* The tree is a value: a node is a record [key, value, height, left,      *)
(* right] and the absent child / empty tree is null.  Every private helper *)
(* of AVLTree and RangeList is an operator that takes the (sub)tree it     *)
(* works on and returns the (sub)tree it leaves, computed step by step as  *)
(* the JavaScript computes it.  Keys, values and amounts are integers.     *)
(***************************************************************************)
EXTENDS Integers, Sequences, FiniteSets

VARIABLES root,    \* AVLTree.root (of RangeList.tree in Spec, of a bare AVLTree in TreeSpec)
          op,      \* the last call made and its arguments
          before,  \* the root as it was when the last call was made
          result   \* what the last call returned (null for a call returning nothing)

vars == <<root, op, before, result>>

(***************************************************************************)
(* Bounds of the model.                                                    *)
(***************************************************************************)
MaxKey == 4       \* keys and positions are 1..MaxKey
MaxVal == 2       \* a RangeList's intensities and amounts are -MaxVal..MaxVal
MaxTreeVal == 1   \* values given to a bare AVLTree are 0..MaxTreeVal

Keys == 1..MaxKey                 \* keys / positions the callers pass
Vals == (0 - MaxVal)..MaxVal      \* intensities a RangeList may hold
Amounts == (0 - MaxVal)..MaxVal   \* amounts passed to add and set
TreeVals == 0..MaxTreeVal            \* values passed to AVLTree.insert / update

null == [isNull |-> TRUE]

Max(a, b) == IF a > b THEN a ELSE b

(***************************************************************************)
(* AVLTree: private helpers.                                               *)
(***************************************************************************)
getHeight(node) == IF node = null THEN 0 ELSE node.height

getBalanceFactor(node) ==
    IF node = null THEN 0 ELSE getHeight(node.left) - getHeight(node.right)

\* node.height = 1 + Math.max(getHeight(node.left), getHeight(node.right))
updateHeight(node) ==
    [node EXCEPT !.height = 1 + Max(getHeight(node.left), getHeight(node.right))]

\* _rotateRight that leaves the height cached in y as it was
rotateRightStaleHeight(y) ==
    LET x  == y.left
        T2 == x.right
        y1 == [y EXCEPT !.left = T2]
    IN  updateHeight([x EXCEPT !.right = y1])

rotateRight(y) ==
    LET x  == y.left
        T2 == x.right
        y1 == updateHeight([y EXCEPT !.left = T2])
    IN  updateHeight([x EXCEPT !.right = y1])

rotateLeft(x) ==
    LET y  == x.right
        T2 == y.left
        x1 == updateHeight([x EXCEPT !.right = T2])
    IN  updateHeight([y EXCEPT !.left = x1])

\* balance without the double rotations (the left-right and right-left cases)
balanceSingleOnly(node) ==
    LET balanceFactor == getBalanceFactor(node)
    IN  IF balanceFactor > 1 THEN rotateRight(node)
        ELSE IF balanceFactor < -1 THEN rotateLeft(node)
        ELSE node

balance(node) ==
    LET balanceFactor == getBalanceFactor(node)
    IN  IF balanceFactor > 1
        THEN IF getBalanceFactor(node.left) < 0
             THEN rotateRight([node EXCEPT !.left = rotateLeft(node.left)])
             ELSE rotateRight(node)
        ELSE IF balanceFactor < -1
        THEN IF getBalanceFactor(node.right) > 0
             THEN rotateLeft([node EXCEPT !.right = rotateRight(node.right)])
             ELSE rotateLeft(node)
        ELSE node

\* _insertNode that leaves the value of a key already stored as it is
RECURSIVE insertNodeNoOverwrite(_, _, _)
insertNodeNoOverwrite(node, key, value) ==
    IF node = null
    THEN [key |-> key, value |-> value, height |-> 1, left |-> null, right |-> null]
    ELSE IF key < node.key
    THEN balance(updateHeight(
             [node EXCEPT !.left = insertNodeNoOverwrite(node.left, key, value)]))
    ELSE IF key > node.key
    THEN balance(updateHeight(
             [node EXCEPT !.right = insertNodeNoOverwrite(node.right, key, value)]))
    ELSE node

RECURSIVE insertNode(_, _, _)
insertNode(node, key, value) ==
    IF node = null
    THEN [key |-> key, value |-> value, height |-> 1, left |-> null, right |-> null]
    ELSE IF key < node.key
    THEN balance(updateHeight([node EXCEPT !.left = insertNode(node.left, key, value)]))
    ELSE IF key > node.key
    THEN balance(updateHeight([node EXCEPT !.right = insertNode(node.right, key, value)]))
    ELSE [node EXCEPT !.value = value]

\* findMinNode that takes the subtree's root for its minimum
findMinNodeNoDescent(node) == node

RECURSIVE findMinNode(_)
findMinNode(node) == IF node.left # null THEN findMinNode(node.left) ELSE node

\* _removeNode that copies the successor's key but not its value
RECURSIVE removeNodeKeepsValue(_, _)
removeNodeKeepsValue(node, key) ==
    IF node = null THEN null
    ELSE LET n1 == IF key < node.key
                   THEN [node EXCEPT !.left = removeNodeKeepsValue(node.left, key)]
                   ELSE IF key > node.key
                   THEN [node EXCEPT !.right = removeNodeKeepsValue(node.right, key)]
                   ELSE IF node.left = null \/ node.right = null
                   THEN (IF node.left # null THEN node.left ELSE node.right)
                   ELSE LET successor == findMinNode(node.right)
                        IN  [node EXCEPT !.key = successor.key,
                                         !.right = removeNodeKeepsValue(node.right,
                                                                        successor.key)]
         IN  IF n1 = null THEN null ELSE balance(updateHeight(n1))

RECURSIVE removeNode(_, _)
removeNode(node, key) ==
    IF node = null THEN null
    ELSE LET n1 == IF key < node.key
                   THEN [node EXCEPT !.left = removeNode(node.left, key)]
                   ELSE IF key > node.key
                   THEN [node EXCEPT !.right = removeNode(node.right, key)]
                   ELSE IF node.left = null \/ node.right = null
                   THEN (IF node.left # null THEN node.left ELSE node.right)
                   ELSE LET successor == findMinNode(node.right)
                        IN  [node EXCEPT !.key = successor.key,
                                         !.value = successor.value,
                                         !.right = removeNode(node.right, successor.key)]
         IN  IF n1 = null THEN null ELSE balance(updateHeight(n1))

RECURSIVE findNode(_, _)
findNode(node, key) ==
    IF node = null THEN null
    ELSE IF key = node.key THEN node
    ELSE IF key < node.key THEN findNode(node.left, key) ELSE findNode(node.right, key)

\* _findLessThan that goes right from a node whose key equals the target
RECURSIVE findLessThanNodeInclusive(_, _, _)
findLessThanNodeInclusive(node, key, lastLess) ==
    IF node = null THEN lastLess
    ELSE IF node.key > key THEN findLessThanNodeInclusive(node.left, key, lastLess)
    ELSE findLessThanNodeInclusive(node.right, key, node)

RECURSIVE findLessThanNode(_, _, _)
findLessThanNode(node, key, lastLess) ==
    IF node = null THEN lastLess
    ELSE IF node.key >= key THEN findLessThanNode(node.left, key, lastLess)
    ELSE findLessThanNode(node.right, key, node)

RECURSIVE findGreaterThanNode(_, _, _)
findGreaterThanNode(node, key, lastGreater) ==
    IF node = null THEN lastGreater
    ELSE IF node.key <= key THEN findGreaterThanNode(node.right, key, lastGreater)
    ELSE findGreaterThanNode(node.left, key, node)

\* The node is pushed before either subtree is visited.
RECURSIVE collectKeysInRange(_, _, _, _)
collectKeysInRange(node, fromKey, toKey, acc) ==
    IF node = null THEN acc
    ELSE LET r1 == IF node.key >= fromKey /\ node.key <= toKey
                   THEN Append(acc, node.key) ELSE acc
             r2 == IF fromKey < node.key
                   THEN collectKeysInRange(node.left, fromKey, toKey, r1) ELSE r1
         IN  IF toKey > node.key
             THEN collectKeysInRange(node.right, fromKey, toKey, r2) ELSE r2

RECURSIVE inOrder(_, _)
inOrder(node, acc) ==
    IF node = null THEN acc
    ELSE inOrder(node.right,
                 Append(inOrder(node.left, acc), [key |-> node.key, value |-> node.value]))

\* node.value = value on the node that find(key) reaches, in place
RECURSIVE setNodeValue(_, _, _)
setNodeValue(node, key, value) ==
    IF node = null THEN null
    ELSE IF key = node.key THEN [node EXCEPT !.value = value]
    ELSE IF key < node.key
    THEN [node EXCEPT !.left = setNodeValue(node.left, key, value)]
    ELSE [node EXCEPT !.right = setNodeValue(node.right, key, value)]

(***************************************************************************)
(* AVLTree: public methods, on the tree rooted at t.                       *)
(***************************************************************************)
insert(t, key, value) == insertNode(t, key, value)

find(t, key) == findNode(t, key)

\* update that stores the key when it is absent
updateOrInsert(t, key, value) == insertNode(t, key, value)

update(t, key, value) ==
    IF find(t, key) # null THEN setNodeValue(t, key, value) ELSE t

remove(t, key) == removeNode(t, key)

findLessThan(t, key) == findLessThanNode(t, key, null)

findGreaterThan(t, key) == findGreaterThanNode(t, key, null)

findLessThanOrEqual(t, key) ==
    LET exact == find(t, key)
    IN  IF exact # null THEN exact ELSE findLessThan(t, key)

\* findNearest that picks the farther of the two neighbours
findNearestFarther(t, key) ==
    LET exact   == find(t, key)
        less    == findLessThan(t, key)
        greater == findGreaterThan(t, key)
    IN  IF exact # null THEN exact
        ELSE IF less = null THEN greater
        ELSE IF greater = null THEN less
        ELSE IF key - less.key > greater.key - key THEN less ELSE greater

\* findNearest that picks the lesser key when the two neighbours are equally far
findNearestTieLess(t, key) ==
    LET exact   == find(t, key)
        less    == findLessThan(t, key)
        greater == findGreaterThan(t, key)
    IN  IF exact # null THEN exact
        ELSE IF less = null THEN greater
        ELSE IF greater = null THEN less
        ELSE IF key - less.key <= greater.key - key THEN less ELSE greater

findNearest(t, key) ==
    LET exact   == find(t, key)
        less    == findLessThan(t, key)
        greater == findGreaterThan(t, key)
    IN  IF exact # null THEN exact
        ELSE IF less = null THEN greater
        ELSE IF greater = null THEN less
        ELSE IF key - less.key < greater.key - key THEN less ELSE greater

\* getKeysInRange that leaves out a key equal to toKey
getKeysInRangeExclusive(t, fromKey, toKey) ==
    SelectSeq(collectKeysInRange(t, fromKey, toKey, <<>>), LAMBDA k : k < toKey)

getKeysInRange(t, fromKey, toKey) == collectKeysInRange(t, fromKey, toKey, <<>>)

inOrderTraversal(t) == inOrder(t, <<>>)

(***************************************************************************)
(* RangeList, on the root t of its tree.                                   *)
(***************************************************************************)
getIntensityAt(t, position) ==
    LET node == findLessThanOrEqual(t, position)
    IN  IF node # null THEN node.value ELSE 0

getIntensityBefore(t, position) ==
    LET node == findLessThan(t, position)
    IN  IF node # null THEN node.value ELSE 0

\* ensurePointExists that stores the value of the node findNearest returned
ensurePointExistsNearest(t, position) ==
    LET node == findNearest(t, position)
    IN  IF node = null THEN insert(t, position, 0)
        ELSE IF node.key # position THEN insert(t, position, node.value)
        ELSE t

\* _ensurePointExists that gives a new point the default intensity 0
ensurePointExistsZero(t, position) ==
    LET node == findNearest(t, position)
    IN  IF node = null \/ node.key # position
        THEN insert(t, position, 0)
        ELSE t

ensurePointExists(t, position) ==
    LET node == findNearest(t, position)
    IN  IF node = null \/ node.key # position
        THEN insert(t, position, getIntensityAt(t, position))
        ELSE t

\* adjustPoint that adjusts the point at the start of the range only
adjustPointFromOnly(t, position, from, to, amount) ==
    LET node == find(t, position)
    IN  IF node = null THEN t
        ELSE IF position = from THEN update(t, position, node.value + amount)
        ELSE t

\* adjustPoint that leaves the point at the start of the range as it is
adjustPointSkipsFrom(t, position, from, to, amount) ==
    LET node == find(t, position)
    IN  IF node = null THEN t
        ELSE IF position > from /\ position < to
        THEN update(t, position, node.value + amount)
        ELSE t

\* adjustPoint with the end of the range taken as inclusive
adjustPointInclusiveTo(t, position, from, to, amount) ==
    LET node == find(t, position)
    IN  IF node = null THEN t
        ELSE IF position = from THEN update(t, position, node.value + amount)
        ELSE IF position <= to THEN update(t, position, node.value + amount)
        ELSE t

\* the body of the loop of _adjustIntensities, for one position
adjustPoint(t, position, from, to, amount) ==
    LET node == find(t, position)
    IN  IF node = null THEN t
        ELSE IF position = from THEN update(t, position, node.value + amount)
        ELSE IF position < to THEN update(t, position, node.value + amount)
        ELSE t

RECURSIVE adjustLoop(_, _, _, _, _, _)
adjustLoop(t, points, i, from, to, amount) ==
    IF i > Len(points) THEN t
    ELSE adjustLoop(adjustPoint(t, points[i], from, to, amount),
                    points, i + 1, from, to, amount)

adjustIntensities(t, from, to, amount) ==
    adjustLoop(t, getKeysInRange(t, from, to), 1, from, to, amount)

RECURSIVE removeLoop(_, _, _, _, _)
removeLoop(t, points, i, from, to) ==
    IF i > Len(points) THEN t
    ELSE removeLoop(IF points[i] > from /\ points[i] < to THEN remove(t, points[i]) ELSE t,
                    points, i + 1, from, to)

\* removePointsInRange that leaves the interior points in place
removePointsInRangeNone(t, from, to) == t

removePointsInRange(t, from, to) ==
    removeLoop(t, getKeysInRange(t, from, to), 1, from, to)

\* the backward scan stopping one point early (i > 1): the second point is never
\* compared with the first
RECURSIVE redundantFromSkipsSecond(_, _, _)
redundantFromSkipsSecond(points, i, toRemove) ==
    IF i <= 1 THEN toRemove
    ELSE redundantFromSkipsSecond(points, i - 1,
                                  IF points[i + 1].value = points[i].value
                                  THEN Append(toRemove, points[i + 1].key) ELSE toRemove)

\* the backward scan marking the earlier point of an equal pair, not the later
RECURSIVE redundantFromMarksPrevious(_, _, _)
redundantFromMarksPrevious(points, i, toRemove) ==
    IF i <= 0 THEN toRemove
    ELSE redundantFromMarksPrevious(points, i - 1,
                                    IF points[i + 1].value = points[i].value
                                    THEN Append(toRemove, points[i].key) ELSE toRemove)

\* for (let i = points.length - 1; i > 0; i--), 0-based i; points[i] is points[i + 1] here
RECURSIVE redundantFrom(_, _, _)
redundantFrom(points, i, toRemove) ==
    IF i <= 0 THEN toRemove
    ELSE redundantFrom(points, i - 1,
                       IF points[i + 1].value = points[i].value
                       THEN Append(toRemove, points[i + 1].key) ELSE toRemove)

RECURSIVE removeAll(_, _, _)
removeAll(t, toRemove, i) ==
    IF i > Len(toRemove) THEN t
    ELSE removeAll(remove(t, toRemove[i]), toRemove, i + 1)

\* cleanupRedundantPoints without the special case of a leading 0
cleanupKeepsLeadingZero(t) ==
    LET points == inOrderTraversal(t)
    IN  IF Len(points) <= 1 THEN t
        ELSE removeAll(t, redundantFrom(points, Len(points) - 1, <<>>), 1)

cleanupRedundantPoints(t) ==
    LET points == inOrderTraversal(t)
        first  == IF points[1].value = 0 THEN <<points[1].key>> ELSE <<>>
    IN  IF Len(points) <= 1 THEN t
        ELSE removeAll(t, redundantFrom(points, Len(points) - 1, first), 1)

\* add without the cleanup pass
addNoCleanup(t, from, to, amount) ==
    IF from >= to \/ amount = 0 THEN t
    ELSE adjustIntensities(ensurePointExists(ensurePointExists(t, from), to),
                           from, to, amount)

\* add whose guard lets the empty range from = to through
addStrictGuard(t, from, to, amount) ==
    IF from > to \/ amount = 0 THEN t
    ELSE cleanupRedundantPoints(
             adjustIntensities(ensurePointExists(ensurePointExists(t, from), to),
                               from, to, amount))

add(t, from, to, amount) ==
    IF from >= to \/ amount = 0 THEN t
    ELSE cleanupRedundantPoints(
             adjustIntensities(ensurePointExists(ensurePointExists(t, from), to),
                               from, to, amount))

\* set without its guard
setNoGuard(t, from, to, amount) ==
    LET intensityAfterRange == getIntensityAt(t, to)
        t1 == ensurePointExists(ensurePointExists(t, from), to)
        t2 == removePointsInRange(t1, from, to)
        t3 == update(update(t2, from, amount), to, intensityAfterRange)
    IN  cleanupRedundantPoints(t3)

set(t, from, to, amount) ==
    IF from >= to THEN t
    ELSE LET intensityAfterRange == getIntensityAt(t, to)
             t1 == ensurePointExists(ensurePointExists(t, from), to)
             t2 == removePointsInRange(t1, from, to)
             t3 == update(update(t2, from, amount), to, intensityAfterRange)
         IN  cleanupRedundantPoints(t3)

toArray(t) ==
    LET nodes == inOrderTraversal(t)
    IN  [i \in 1..Len(nodes) |-> <<nodes[i].key, nodes[i].value>>]

(***************************************************************************)
(* What the properties are stated in.                                      *)
(***************************************************************************)
RECURSIVE NodesOf(_)
NodesOf(node) ==
    IF node = null THEN {} ELSE {node} \cup NodesOf(node.left) \cup NodesOf(node.right)

RECURSIVE KeysOf(_)
KeysOf(node) ==
    IF node = null THEN {} ELSE {node.key} \cup KeysOf(node.left) \cup KeysOf(node.right)

\* value stored under key k, or null
ValueOf(t, k) ==
    IF \E n \in NodesOf(t) : n.key = k
    THEN (CHOOSE n \in NodesOf(t) : n.key = k).value
    ELSE null

\* the node of greatest key <= p among all nodes of the tree (every node is looked at)
RECURSIVE Floor(_, _, _)
Floor(node, p, best) ==
    IF node = null THEN best
    ELSE LET b1 == IF node.key <= p /\ (best = null \/ node.key > best.key)
                   THEN node ELSE best
         IN  Floor(node.right, p, Floor(node.left, p, b1))

\* the effective intensity at p: value of the greatest stored key <= p, or 0
Intensity(t, p) ==
    LET n == Floor(t, p, null)
    IN  IF n = null THEN 0 ELSE n.value

\* the positions at which intensities are compared: every key and one beyond each end
Positions == 0..(MaxKey + 1)

\* the function the list encodes, on Positions
IntensityMap(t) == [p \in Positions |-> Intensity(t, p)]

RECURSIVE ValuesWithin(_, _)
ValuesWithin(node, bound) ==
    IF node = null THEN TRUE
    ELSE /\ node.value \in bound
         /\ ValuesWithin(node.left, bound)
         /\ ValuesWithin(node.right, bound)

(***************************************************************************)
(* The RangeList as a state machine (Spec): a caller makes add and set     *)
(* calls on a fresh list.  The list's whole state is its tree; the call   *)
(* log of TreeSpec is not kept.  An add that would take an intensity out   *)
(* of Vals is not made (the bound that keeps the state space finite).      *)
(***************************************************************************)
Init ==
    /\ root = null
    /\ op = [name |-> "new"]
    /\ before = null
    /\ result = null

Add(from, to, amount) ==
    LET t == add(root, from, to, amount)
    IN  /\ ValuesWithin(t, Vals)
        /\ root' = t
        /\ UNCHANGED <<op, before, result>>

Set(from, to, amount) ==
    /\ root' = set(root, from, to, amount)
    /\ UNCHANGED <<op, before, result>>

Next ==
    \/ \E from \in Keys, to \in Keys, amount \in Amounts : Add(from, to, amount)
    \/ \E from \in Keys, to \in Keys, amount \in Amounts : Set(from, to, amount)

Spec == Init /\ [][Next]_vars

\* a caller that makes add calls only (AddSpec); it reaches the lists Spec
\* reaches.  The commutation of add calls is checked under it.
AddNext == \E from \in Keys, to \in Keys, amount \in Amounts : Add(from, to, amount)

AddSpec == Init /\ [][AddNext]_vars

\* a caller that makes set calls only (SetSpec); it too reaches the lists Spec
\* reaches.  The properties of set alone and of the cleanup pass within add and
\* set are checked under it: each is stated for every reachable list and every
\* argument of the call, and the lists are the same under the three.
SetNext == \E from \in Keys, to \in Keys, amount \in Amounts : Set(from, to, amount)

SetSpec == Init /\ [][SetNext]_vars

(***************************************************************************)
(* A bare AVLTree as a state machine (TreeSpec): a caller makes insert,    *)
(* update, remove and query calls on a fresh tree.  Each call is logged    *)
(* with its arguments (op), the root it was made on (before) and what it   *)
(* returned (result).                                                      *)
(***************************************************************************)
Insert(key, value) ==
    /\ root' = insert(root, key, value)
    /\ op' = [name |-> "insert", key |-> key, value |-> value]
    /\ before' = root
    /\ result' = null

Update(key, value) ==
    /\ root' = update(root, key, value)
    /\ op' = [name |-> "update", key |-> key, value |-> value]
    /\ before' = root
    /\ result' = null

Remove(key) ==
    /\ root' = remove(root, key)
    /\ op' = [name |-> "remove", key |-> key]
    /\ before' = root
    /\ result' = null

FindNearest(key) ==
    /\ root' = root
    /\ op' = [name |-> "findNearest", key |-> key]
    /\ before' = root
    /\ result' = findNearest(root, key)

FindLessThan(key) ==
    /\ root' = root
    /\ op' = [name |-> "findLessThan", key |-> key]
    /\ before' = root
    /\ result' = findLessThan(root, key)

FindGreaterThan(key) ==
    /\ root' = root
    /\ op' = [name |-> "findGreaterThan", key |-> key]
    /\ before' = root
    /\ result' = findGreaterThan(root, key)

GetKeysInRange(fromKey, toKey) ==
    /\ root' = root
    /\ op' = [name |-> "getKeysInRange", fromKey |-> fromKey, toKey |-> toKey]
    /\ before' = root
    /\ result' = getKeysInRange(root, fromKey, toKey)

TreeNext ==
    \/ \E key \in Keys, value \in TreeVals : Insert(key, value)
    \/ \E key \in Keys, value \in TreeVals : Update(key, value)
    \/ \E key \in Keys : Remove(key)
    \/ \E key \in Keys : FindNearest(key)
    \/ \E key \in Keys : FindLessThan(key)
    \/ \E key \in Keys : FindGreaterThan(key)
    \/ \E fromKey \in Keys, toKey \in Keys : GetKeysInRange(fromKey, toKey)

TreeSpec == Init /\ [][TreeNext]_vars

(***************************************************************************)
(* The cleanup pass on any stored points (CleanupSpec): the list's tree is *)
(* filled by insert, update and remove calls made on it directly, and      *)
(* _cleanupRedundantPoints is run on what they leave.  Calls are logged as *)
(* in TreeSpec.                                                            *)
(***************************************************************************)
CleanupRedundantPoints ==
    /\ root' = cleanupRedundantPoints(root)
    /\ op' = [name |-> "cleanupRedundantPoints"]
    /\ before' = root
    /\ result' = null

CleanupNext ==
    \/ \E key \in Keys, value \in TreeVals : Insert(key, value)
    \/ \E key \in Keys, value \in TreeVals : Update(key, value)
    \/ \E key \in Keys : Remove(key)
    \/ CleanupRedundantPoints

CleanupSpec == Init /\ [][CleanupNext]_vars

(***************************************************************************)
(* Properties of the RangeList (checked under Spec; those of set alone     *)
(* under SetSpec).  A property of a call is stated for every reachable     *)
(* list and every argument of the call.                                    *)
(***************************************************************************)
Canonical(arr) ==
    /\ \A i \in 1..(Len(arr) - 1) : arr[i][2] # arr[i + 1][2]
    /\ Len(arr) >= 1 => arr[1][2] # 0

\* C1: after any sequence of add and set calls on a fresh RangeList, toArray()
\* has no two adjacent pairs with equal intensity, and its first pair, if any,
\* has an intensity other than 0.
CanonicalForm == Canonical(toArray(root))

\* a list of at least three segments, the first of which starts after position 1
CanonicalFormWitness ==
    /\ Len(toArray(root)) >= 3
    /\ toArray(root)[1][1] > 1

\* C2: add(from, to, amount) with from < to and amount # 0 raises the effective
\* intensity by amount at every position p with from <= p < to and leaves it
\* as it was at every p < from and every p >= to.
AddEffect ==
    \A from \in Keys, to \in Keys, amount \in Amounts :
        (from < to /\ amount # 0) =>
            IntensityMap(add(root, from, to, amount)) =
                [p \in Positions |->
                    Intensity(root, p) + (IF from <= p /\ p < to THEN amount ELSE 0)]

\* an add over a range that holds a stored point inside it, with neither end stored
AddEffectWitness ==
    \E from \in Keys, to \in Keys, amount \in Amounts :
        /\ from < to /\ amount # 0
        /\ \E k \in KeysOf(root) : from < k /\ k < to
        /\ from \notin KeysOf(root) /\ to \notin KeysOf(root)
        /\ KeysOf(add(root, from, to, amount)) # KeysOf(root)

\* C3: set(a, b, v) with a < b makes the effective intensity v at every position
\* p in [a, b) and leaves it as it was at every p >= b and every p < a.
SetEffect ==
    \A a \in Keys, b \in Keys, v \in Amounts :
        a < b =>
            IntensityMap(set(root, a, b, v)) =
                [p \in Positions |-> IF a <= p /\ p < b THEN v ELSE Intensity(root, p)]

\* a set over a range that holds stored points of other intensities inside it
SetEffectWitness ==
    \E a \in Keys, b \in Keys, v \in Amounts :
        /\ a < b
        /\ \E k \in KeysOf(root) : a < k /\ k < b /\ ValueOf(root, k) # v
        /\ Intensity(root, b) # v
        /\ \E k \in KeysOf(root) : a < k /\ k < b /\ k \notin KeysOf(set(root, a, b, v))

\* C6: add(a, b, 0) for any a, b, and add(a, b, x) for any a >= b, leave
\* toArray() unchanged.
AddNoOp ==
    \A a \in Keys, b \in Keys, x \in Amounts :
        (x = 0 \/ a >= b) => toArray(add(root, a, b, x)) = toArray(root)

\* a list with a stored point a, on which add(a, a, x) with x # 0 is called
AddNoOpWitness ==
    /\ Len(toArray(root)) >= 2
    /\ \E a \in KeysOf(root), x \in Amounts :
           x # 0 /\ add(root, a, a, x) = root

\* C7: set(from, to, amount) with from >= to leaves toArray() unchanged, for
\* every amount.
SetNoOp ==
    \A from \in Keys, to \in Keys, amount \in Amounts :
        from >= to => toArray(set(root, from, to, amount)) = toArray(root)

\* a list on which set(from, to, amount) is called with from > to, amount being
\* none of the intensities in effect around from and to
SetNoOpWitness ==
    /\ Len(toArray(root)) >= 2
    /\ \E from \in Keys, to \in Keys, amount \in Amounts :
           /\ from > to
           /\ amount # Intensity(root, from) /\ amount # Intensity(root, to)
           /\ set(root, from, to, amount) = root

\* C15: for any from < to and integer amount x # 0, add(from, to, x) followed
\* by add(from, to, -x) restores toArray() to exactly its value before the first
\* call (on a fresh list the result is the empty array).
AddUndo ==
    \A from \in Keys, to \in Keys, x \in Amounts :
        (from < to /\ x # 0) =>
            toArray(add(add(root, from, to, x), from, to, 0 - x)) = toArray(root)

\* a list with a stored point inside the range and none at its ends, on which
\* the first add stores both ends and the second removes them again
AddUndoWitness ==
    /\ Len(toArray(root)) >= 2
    /\ \E from \in Keys, to \in Keys, x \in Amounts :
           /\ from < to /\ x # 0
           /\ from \notin KeysOf(root) /\ to \notin KeysOf(root)
           /\ \E k \in KeysOf(root) : from < k /\ k < to
           /\ {from, to} \subseteq KeysOf(add(root, from, to, x))
           /\ KeysOf(add(add(root, from, to, x), from, to, 0 - x)) = KeysOf(root)

\* C16: on a fresh RangeList, for any a < b < c and amount x # 0, add(a, b, x)
\* followed by add(b, c, x) yields toArray() = [[a, x], [c, 0]], with no
\* breakpoint left at b; likewise for a chain of three adjacent ranges.
AdjacentMerge ==
    root = null =>
        \A a \in Keys, b \in Keys, c \in Keys, x \in Amounts :
            (a < b /\ b < c /\ x # 0) =>
                /\ toArray(add(add(root, a, b, x), b, c, x)) = << <<a, x>>, <<c, 0>> >>
                /\ \A d \in Keys :
                       c < d =>
                           toArray(add(add(add(root, a, b, x), b, c, x), c, d, x))
                               = << <<a, x>>, <<d, 0>> >>

\* the list that add(a, b, x), add(b, c, x), add(c, d, x) on a fresh list leave
AdjacentMergeWitness ==
    \E a \in Keys, b \in Keys, c \in Keys, d \in Keys, x \in Amounts :
        /\ a < b /\ b < c /\ c < d /\ x # 0
        /\ root = add(add(add(null, a, b, x), b, c, x), c, d, x)
        /\ toArray(root) = << <<a, x>>, <<d, 0>> >>

\* C17: on a fresh RangeList, add(10,30,1); add(20,40,1); add(10,40,-2) gives
\* toArray() = [[10,1],[30,0]] after the first call,
\* [[10,1],[20,2],[30,1],[40,0]] after the second and
\* [[10,-1],[20,0],[30,-1],[40,0]] after the third.
ExampleOne ==
    root = null =>
        LET s1 == add(root, 10, 30, 1)
            s2 == add(s1, 20, 40, 1)
            s3 == add(s2, 10, 40, -2)
        IN  /\ toArray(s1) = << <<10, 1>>, <<30, 0>> >>
            /\ toArray(s2) = << <<10, 1>>, <<20, 2>>, <<30, 1>>, <<40, 0>> >>
            /\ toArray(s3) = << <<10, -1>>, <<20, 0>>, <<30, -1>>, <<40, 0>> >>

\* the list the same three calls leave on the positions 1, 2, 3, 4
ExampleOneWitness ==
    /\ root = add(add(add(null, 1, 3, 1), 2, 4, 1), 1, 4, -2)
    /\ toArray(root) = << <<1, -1>>, <<2, 0>>, <<3, -1>>, <<4, 0>> >>

\* what _ensurePointExists(x) has to do on the tree t
EnsureStepOk(t, x) ==
    LET u == ensurePointExists(t, x)
    IN  /\ x \in KeysOf(u)
        /\ IntensityMap(u) = IntensityMap(t)
        /\ x \in KeysOf(t) => u = t
        /\ x \notin KeysOf(t) =>
              /\ find(u, x).value = Intensity(t, x)
              /\ {<<n.key, n.value>> : n \in NodesOf(u)}
                     = {<<n.key, n.value>> : n \in NodesOf(t)} \cup {<<x, Intensity(t, x)>>}

\* C20: in add and set, the boundary-ensuring step for a position x leaves a
\* point already stored at x untouched (key and value) and otherwise inserts x
\* with the intensity in effect at x; in both cases x is a stored key afterwards
\* and the effective intensity at every position is the same as before the step,
\* whatever node findNearest returned.  (The step is taken for from on the list
\* as the call finds it, and for to on what the first step leaves.)
EnsureFrame ==
    \A from \in Keys, to \in Keys :
        from < to =>
            /\ EnsureStepOk(root, from)
            /\ EnsureStepOk(ensurePointExists(root, from), to)

\* a step for a position that is not stored, with a stored key on either side,
\* the nearest being the greater one, where the intensity in effect is not 0
EnsureFrameWitness ==
    \E x \in Keys :
        /\ x \notin KeysOf(root)
        /\ \E k \in KeysOf(root) : k < x
        /\ \E k \in KeysOf(root) : k > x
        /\ findNearest(root, x).key > x
        /\ Intensity(root, x) # 0
        /\ x \in KeysOf(ensurePointExists(root, x))

(***************************************************************************)
(* Properties of the AVLTree (checked under TreeSpec).                     *)
(***************************************************************************)
\* the height of a subtree, counted on the tree itself
RECURSIVE Height(_)
Height(node) ==
    IF node = null THEN 0 ELSE 1 + Max(Height(node.left), Height(node.right))

RECURSIVE AllBalanced(_)
AllBalanced(node) ==
    IF node = null THEN TRUE
    ELSE /\ getHeight(node.left) - getHeight(node.right) \in {-1, 0, 1}
         /\ Height(node.left) - Height(node.right) \in {-1, 0, 1}
         /\ AllBalanced(node.left)
         /\ AllBalanced(node.right)

\* C4: after every insert and remove call, every node of the tree has a balance
\* factor height(left) - height(right) in {-1, 0, 1} (by the heights the nodes
\* cache and by the heights of the subtrees themselves).
Balanced == AllBalanced(root)

\* a remove on a tree of at least four nodes that left another node at the root
\* than the one that was there, the removed key not being the old root's
BalancedWitness ==
    /\ op.name = "remove"
    /\ Cardinality(KeysOf(before)) >= 4
    /\ op.key \in KeysOf(before)
    /\ op.key # before.key
    /\ root.key # before.key

\* every key of the subtree lies strictly between lo and hi
RECURSIVE IsBST(_, _, _)
IsBST(node, lo, hi) ==
    IF node = null THEN TRUE
    ELSE /\ lo < node.key /\ node.key < hi
         /\ IsBST(node.left, lo, node.key)
         /\ IsBST(node.right, node.key, hi)

StrictlyIncreasing(seq) == \A i \in 1..(Len(seq) - 1) : seq[i] < seq[i + 1]

KeysInOrder(t) ==
    LET nodes == inOrderTraversal(t)
    IN  [i \in 1..Len(nodes) |-> nodes[i].key]

\* C5: after any sequence of insert, update and remove calls, inOrderTraversal()
\* yields strictly increasing keys: the BST order holds at every node and no key
\* occurs twice.
Ordered ==
    /\ StrictlyIncreasing(KeysInOrder(root))
    /\ IsBST(root, 0, MaxKey + 1)

\* a remove of a key whose node had two children, the right one with a left child
OrderedWitness ==
    /\ op.name = "remove"
    /\ LET node == find(before, op.key)
       IN  /\ node # null
           /\ node.left # null
           /\ node.right # null
           /\ node.right.left # null
    /\ Cardinality(KeysOf(root)) >= 3

\* the stored keys k with fromKey <= k <= toKey
KeysBetween(t, fromKey, toKey) == {k \in KeysOf(t) : fromKey <= k /\ k <= toKey}

SeqRange(seq) == {seq[i] : i \in 1..Len(seq)}

\* the keys of a tree, each node's before those of its left subtree, those
\* before the ones of its right subtree
RECURSIVE PreOrderKeys(_)
PreOrderKeys(node) ==
    IF node = null THEN <<>>
    ELSE <<node.key>> \o PreOrderKeys(node.left) \o PreOrderKeys(node.right)

\* C8 as stated: getKeysInRange(from, to) returns exactly the stored keys k with
\* from <= k <= to, each once, in increasing order.
RangeKeysIncreasing ==
    op.name = "getKeysInRange" =>
        /\ SeqRange(result) = KeysBetween(root, op.fromKey, op.toKey)
        /\ Len(result) = Cardinality(KeysBetween(root, op.fromKey, op.toKey))
        /\ StrictlyIncreasing(result)

\* C8, amended: getKeysInRange(from, to) returns exactly the stored keys k with
\* from <= k <= to, each once, in the tree's pre-order (a node's key before the
\* keys of its left subtree, those before the keys of its right subtree).
RangeKeysPreOrder ==
    op.name = "getKeysInRange" =>
        /\ SeqRange(result) = KeysBetween(root, op.fromKey, op.toKey)
        /\ Len(result) = Cardinality(KeysBetween(root, op.fromKey, op.toKey))
        /\ result = SelectSeq(PreOrderKeys(root),
                              LAMBDA k : op.fromKey <= k /\ k <= op.toKey)

\* a call that returned three keys or more, not in increasing order, both
\* bounds being stored keys and a stored key lying outside the range
RangeKeysWitness ==
    /\ op.name = "getKeysInRange"
    /\ Len(result) >= 3
    /\ ~StrictlyIncreasing(result)
    /\ op.fromKey \in KeysOf(root) /\ op.toKey \in KeysOf(root)
    /\ KeysOf(root) # SeqRange(result)

Abs(x) == IF x < 0 THEN 0 - x ELSE x

KeysBelow(t, k) == {j \in KeysOf(t) : j < k}
KeysAbove(t, k) == {j \in KeysOf(t) : j > k}
MaxOf(S) == CHOOSE x \in S : \A y \in S : y <= x
MinOf(S) == CHOOSE x \in S : \A y \in S : x <= y

\* C9: findNearest(k) returns the node at k if present; otherwise a stored node
\* whose distance to k is least over all stored keys (the predecessor or the
\* successor of k); it returns absent exactly when the tree is empty.
NearestIsClosest ==
    op.name = "findNearest" =>
        /\ result = null <=> root = null
        /\ result # null =>
              /\ result \in NodesOf(root)
              /\ op.key \in KeysOf(root) => result.key = op.key
              /\ \A j \in KeysOf(root) : Abs(result.key - op.key) <= Abs(j - op.key)
              /\ op.key \notin KeysOf(root) =>
                    \/ /\ KeysBelow(root, op.key) # {}
                       /\ result.key = MaxOf(KeysBelow(root, op.key))
                    \/ /\ KeysAbove(root, op.key) # {}
                       /\ result.key = MinOf(KeysAbove(root, op.key))

\* a call for a key that is not stored, with stored keys on both sides of it,
\* the one below nearer than the one above
NearestIsClosestWitness ==
    /\ op.name = "findNearest"
    /\ op.key \notin KeysOf(root)
    /\ KeysBelow(root, op.key) # {} /\ KeysAbove(root, op.key) # {}
    /\ op.key - MaxOf(KeysBelow(root, op.key)) < MinOf(KeysAbove(root, op.key)) - op.key
    /\ result.key = MaxOf(KeysBelow(root, op.key))

\* k is not stored and its predecessor and successor are equally far from it
IsTie(t, k) ==
    /\ k \notin KeysOf(t)
    /\ KeysBelow(t, k) # {} /\ KeysAbove(t, k) # {}
    /\ k - MaxOf(KeysBelow(t, k)) = MinOf(KeysAbove(t, k)) - k

\* C10 as stated: when k is not stored and its predecessor and successor are at
\* equal distance from k, findNearest(k) returns the node with the lesser key.
NearestTieLesser ==
    (op.name = "findNearest" /\ IsTie(root, op.key)) =>
        result.key = MaxOf(KeysBelow(root, op.key))

\* C10, amended: when k is not stored and its predecessor and successor are at
\* equal distance from k, findNearest(k) returns the node with the greater key
\* (the successor).
NearestTieGreater ==
    (op.name = "findNearest" /\ IsTie(root, op.key)) =>
        /\ result \in NodesOf(root)
        /\ result.key = MinOf(KeysAbove(root, op.key))

\* a call for a key with its two neighbours equally far, in a tree of three nodes
\* or more
NearestTieWitness ==
    /\ op.name = "findNearest"
    /\ IsTie(root, op.key)
    /\ Cardinality(KeysOf(root)) >= 3

\* C11: findLessThan(k) returns the node with the largest stored key strictly
\* less than k (absent if none), findGreaterThan(k) the node with the smallest
\* stored key strictly greater than k (absent if none); neither returns a node
\* whose key equals k.
StrictNeighbours ==
    /\ op.name = "findLessThan" =>
          IF KeysBelow(root, op.key) = {} THEN result = null
          ELSE /\ result \in NodesOf(root)
               /\ result.key = MaxOf(KeysBelow(root, op.key))
               /\ result.key # op.key
    /\ op.name = "findGreaterThan" =>
          IF KeysAbove(root, op.key) = {} THEN result = null
          ELSE /\ result \in NodesOf(root)
               /\ result.key = MinOf(KeysAbove(root, op.key))
               /\ result.key # op.key

\* a findLessThan call for a stored key that has at least two stored keys below
\* it, in a tree whose root is not the node returned
StrictNeighboursWitness ==
    /\ op.name = "findLessThan"
    /\ op.key \in KeysOf(root)
    /\ Cardinality(KeysBelow(root, op.key)) >= 2
    /\ result # null
    /\ result.key # root.key

\* the stored (key, value) pairs
PairsOf(t) == {<<n.key, n.value>> : n \in NodesOf(t)}

\* the number of nodes
RECURSIVE Size(_)
Size(node) == IF node = null THEN 0 ELSE 1 + Size(node.left) + Size(node.right)

\* C12: remove(k) deletes exactly the entry for k when it is present (leaf,
\* one-child and two-children cases alike): afterwards find(k) is absent and
\* every other stored (key, value) pair is still there with its value; when k
\* is absent the stored pairs and the node count are unchanged.
RemoveExact ==
    op.name = "remove" =>
        /\ find(root, op.key) = null
        /\ op.key \notin KeysOf(root)
        /\ PairsOf(root) = {pr \in PairsOf(before) : pr[1] # op.key}
        /\ Size(root) = Size(before) - (IF op.key \in KeysOf(before) THEN 1 ELSE 0)

\* a remove of a key whose node had two children, the successor's value being
\* another than the removed one, and one node having gone
RemoveExactWitness ==
    /\ op.name = "remove"
    /\ LET node == find(before, op.key)
       IN  /\ node # null
           /\ node.left # null
           /\ node.right # null
           /\ findMinNode(node.right).value # node.value
    /\ Size(root) = Size(before) - 1
    /\ Size(root) >= 3

\* C13: after insert(k, v), find(k) returns a node with key k and value v; if k
\* was absent exactly one node is added, if it was present its value is
\* overwritten and the node count is unchanged; every other stored pair is
\* unchanged.
InsertExact ==
    op.name = "insert" =>
        /\ find(root, op.key) # null
        /\ find(root, op.key).key = op.key
        /\ find(root, op.key).value = op.value
        /\ PairsOf(root) =
              {pr \in PairsOf(before) : pr[1] # op.key} \cup {<<op.key, op.value>>}
        /\ Size(root) = Size(before) + (IF op.key \in KeysOf(before) THEN 0 ELSE 1)

\* an insert of a key that was stored with another value, below the root
InsertExactWitness ==
    /\ op.name = "insert"
    /\ op.key \in KeysOf(before)
    /\ ValueOf(before, op.key) # op.value
    /\ before.key # op.key
    /\ Size(root) >= 3

\* the tree with its values left out
RECURSIVE ShapeOf(_)
ShapeOf(node) ==
    IF node = null THEN null
    ELSE [key |-> node.key, height |-> node.height,
          left |-> ShapeOf(node.left), right |-> ShapeOf(node.right)]

\* C14: update(k, v) sets the value stored at k to v when k is present and
\* changes nothing (creates no node) when k is absent; in both cases the set of
\* stored keys and the shape of the tree are unchanged.
UpdateExact ==
    op.name = "update" =>
        /\ op.key \in KeysOf(before) =>
              PairsOf(root) =
                  {pr \in PairsOf(before) : pr[1] # op.key} \cup {<<op.key, op.value>>}
        /\ op.key \notin KeysOf(before) => root = before
        /\ KeysOf(root) = KeysOf(before)
        /\ ShapeOf(root) = ShapeOf(before)

\* an update of a key that is absent from a tree of two nodes or more
UpdateExactWitness ==
    /\ op.name = "update"
    /\ op.key \notin KeysOf(before)
    /\ Size(before) >= 2
    /\ root = before

RECURSIVE HeightsExact(_)
HeightsExact(node) ==
    IF node = null THEN TRUE
    ELSE /\ node.height >= 1
         /\ node.height = 1 + Max(Height(node.left), Height(node.right))
         /\ node.height = 1 + Max(getHeight(node.left), getHeight(node.right))
         /\ HeightsExact(node.left)
         /\ HeightsExact(node.right)

\* C18: after every insert and remove call (the rotations they trigger and the
\* successor-copy removal included), every node's cached height is an integer
\* >= 1 equal to 1 + max(height(left), height(right)), an absent child having
\* height 0.
CachedHeights == HeightsExact(root)

\* a remove of a key whose node had two children that made the tree lower
CachedHeightsWitness ==
    /\ op.name = "remove"
    /\ LET node == find(before, op.key)
       IN  node # null /\ node.left # null /\ node.right # null
    /\ Height(root) < Height(before)
    /\ Size(root) >= 3

(***************************************************************************)
(* Properties of the cleanup pass (checked under CleanupSpec).             *)
(***************************************************************************)
\* whether the cleanup is to delete the i-th of the points: the first when its
\* value is 0, a later one when its value is that of the point before it
IsRedundant(points, i) ==
    IF i = 1 THEN points[1].value = 0 ELSE points[i].value = points[i - 1].value

RECURSIVE KeepFrom(_, _)
KeepFrom(points, i) ==
    IF i > Len(points) THEN <<>>
    ELSE (IF IsRedundant(points, i) THEN <<>> ELSE <<points[i]>>) \o KeepFrom(points, i + 1)

\* the points left when every redundant point of the sequence is deleted, each
\* decision taken on the sequence as given
WithoutRedundant(points) == KeepFrom(points, 1)

\* C19: the cleanup pass, run on any stored sequence of points (a map holding a
\* single point included), deletes the first point if its value is the default
\* 0 and every later point whose value equals its immediate predecessor's, all
\* decisions being taken on the snapshot captured at the start of the pass.
CleanupDeletesRedundant ==
    op.name = "cleanupRedundantPoints" =>
        inOrderTraversal(root) = WithoutRedundant(inOrderTraversal(before))

\* the same for a map of two points or more; a map of one point or none is left
\* as it is
CleanupFromTwoPoints ==
    op.name = "cleanupRedundantPoints" =>
        IF Len(inOrderTraversal(before)) >= 2
        THEN inOrderTraversal(root) = WithoutRedundant(inOrderTraversal(before))
        ELSE root = before

\* a pass over three points or more that deleted the first and a later one
CleanupFromTwoPointsWitness ==
    /\ op.name = "cleanupRedundantPoints"
    /\ Len(inOrderTraversal(before)) >= 3
    /\ inOrderTraversal(before)[1].value = 0
    /\ Len(inOrderTraversal(root)) + 2 <= Len(inOrderTraversal(before))
    /\ root # null

(***************************************************************************)
(* Further properties of the RangeList (checked under Spec; the cleanup    *)
(* pass under SetSpec, the commutation of add calls under AddSpec).        *)
(***************************************************************************)
\* C21: the equal-distance case of findNearest is not exercised: in no sequence
\* of add/set calls is findNearest invoked with a non-stored key whose
\* predecessor and successor in the map are at equal distance from it.
EnsureNeverTie ==
    \A from \in Keys, to \in Keys :
        from < to =>
            /\ ~IsTie(root, from)
            /\ ~IsTie(ensurePointExists(root, from), to)

\* the boundary step for x on a tie: findNearest returns the successor, and the
\* point stored at x takes the predecessor's value all the same
TieStepOk(t, x) ==
    /\ findNearest(t, x) = findGreaterThan(t, x)
    /\ find(ensurePointExists(t, x), x).value = findLessThan(t, x).value
    /\ IntensityMap(ensurePointExists(t, x)) = IntensityMap(t)

\* C21 (as the code has it): add and set do invoke findNearest on a non-stored
\* key halfway between its predecessor and its successor; findNearest then
\* returns the successor, and the boundary step stores the key with the
\* predecessor's value, so the encoded function does not change.
EnsureTieHarmless ==
    \A from \in Keys, to \in Keys :
        from < to =>
            /\ IsTie(root, from) => TieStepOk(root, from)
            /\ IsTie(ensurePointExists(root, from), to)
                   => TieStepOk(ensurePointExists(root, from), to)

\* a list on which the boundary step for the start of a range meets a tie
\* between two points of different values
EnsureTieWitness ==
    \E from \in Keys, to \in Keys :
        /\ from < to
        /\ IsTie(root, from)
        /\ findLessThan(root, from).value # findGreaterThan(root, from).value
        /\ from \in KeysOf(ensurePointExists(root, from))

\* the tree on which add invokes the cleanup pass: both ends stored, the range adjusted
addBeforeCleanup(t, from, to, amount) ==
    adjustIntensities(ensurePointExists(ensurePointExists(t, from), to), from, to, amount)

\* the tree on which set invokes the cleanup pass
setBeforeCleanup(t, from, to, amount) ==
    LET intensityAfterRange == getIntensityAt(t, to)
        t1 == ensurePointExists(ensurePointExists(t, from), to)
        t2 == removePointsInRange(t1, from, to)
    IN  update(update(t2, from, amount), to, intensityAfterRange)

CleanupKeepsMap(t) == IntensityMap(cleanupRedundantPoints(t)) = IntensityMap(t)

\* C22: the cleanup pass never changes the encoded function: for every position
\* p, the effective intensity at p is the same immediately before and
\* immediately after _cleanupRedundantPoints, for every map state on which add
\* or set invokes it.
CleanupKeepsFunction ==
    \A from \in Keys, to \in Keys, amount \in Amounts :
        from < to =>
            /\ amount # 0 => CleanupKeepsMap(addBeforeCleanup(root, from, to, amount))
            /\ CleanupKeepsMap(setBeforeCleanup(root, from, to, amount))

\* an add whose cleanup pass deletes a leading point of value 0 and a later
\* point equal to its predecessor, and a set whose cleanup pass deletes a point
CleanupKeepsFunctionWitness ==
    /\ \E from \in Keys, to \in Keys, amount \in Amounts :
           /\ from < to /\ amount # 0
           /\ LET t == addBeforeCleanup(root, from, to, amount)
              IN  /\ inOrderTraversal(t)[1].value = 0
                  /\ Cardinality(KeysOf(cleanupRedundantPoints(t))) + 2
                         <= Cardinality(KeysOf(t))
                  /\ cleanupRedundantPoints(t) # null
    /\ \E from \in Keys, to \in Keys, amount \in Amounts :
           /\ from < to
           /\ LET t == setBeforeCleanup(root, from, to, amount)
              IN  /\ KeysOf(cleanupRedundantPoints(t)) # KeysOf(t)
                  /\ cleanupRedundantPoints(t) # null

\* the calls add(from, to, amount) that do something
AddCalls == {c \in Keys \X Keys \X Amounts : c[1] < c[2] /\ c[3] # 0}

\* C23: add operations commute: from any reachable RangeList state and for any
\* two calls add(a, b, x) and add(c, d, y) with integer amounts, executing them
\* in either order produces the same toArray().
AddCommutes ==
    LET first == [c \in AddCalls |-> add(root, c[1], c[2], c[3])]
    IN  \A c1 \in AddCalls, c2 \in AddCalls :
            toArray(add(first[c1], c2[1], c2[2], c2[3]))
                = toArray(add(first[c2], c1[1], c1[2], c1[3]))

\* two adds over ranges that overlap in part, on a list with a stored point in
\* the overlap: each order goes through a different list and both end in the same
AddCommutesWitness ==
    \E c1 \in AddCalls, c2 \in AddCalls :
        /\ c1[1] < c2[1] /\ c2[1] < c1[2] /\ c1[2] < c2[2]
        /\ c1[3] # c2[3]
        /\ \E k \in KeysOf(root) : c2[1] <= k /\ k < c1[2]
        /\ toArray(add(root, c1[1], c1[2], c1[3])) # toArray(add(root, c2[1], c2[2], c2[3]))
        /\ toArray(add(add(root, c1[1], c1[2], c1[3]), c2[1], c2[2], c2[3])) # toArray(root)
        /\ toArray(add(add(root, c1[1], c1[2], c1[3]), c2[1], c2[2], c2[3]))
               = toArray(add(add(root, c2[1], c2[2], c2[3]), c1[1], c1[2], c1[3]))

=============================================================================
